---- MODULE Spec2Model ----
(***************************************************************************)
(* Model of monitoring/app.py: the Oracle database monitor dashboard.      *)
(*                                                                         *)
(* Python strings are modelled as sequences of tokens (an f-string is the  *)
(* sequence of its literal parts and interpolated values), so that         *)
(* "contains" and equality of messages are decided, not assumed.           *)
(* Python's None, where the code only tests truthiness or unpacks it, is   *)
(* the empty sequence <<>>.                                                *)
(***************************************************************************)
EXTENDS Integers, Sequences, FiniteSets, TLC

VARIABLES
    docker_client,  \* module global bound at the top of every script run (app.py:9-13)
    session_state,  \* st.session_state: result_key -> last query result
    pc,             \* position of the script run: "idle" or the tab being drawn
    col,            \* the column (panel) being drawn: 1 or 2
    event,          \* widget state that triggered the current script run
    view,           \* what each panel shows in the current script run
    ncalls,         \* helper calls made for each target in the current script run
    res,            \* local `res` of the Run Query handler (app.py:124)
    call            \* the last direct call of a helper function, with its outcome

vars == <<docker_client, session_state, pc, col, event, view, ncalls, res, call>>

---------------------------------------------------------------------------
(* Bounds of the modelled environment.                                     *)

MaxSessions == 1   \* largest COUNT(*) the session view reports
MaxCols     == 2   \* longest column description
MaxRows     == 2   \* most rows a statement returns
MaxStmtLen  == 2   \* longest statement typed into the text area
MaxLogLen   == 2   \* most bytes the container runtime returns as log tail

RECURSIVE SeqsUpTo(_, _)
SeqsUpTo(S, n) ==
    IF n = 0 THEN {<<>>}
    ELSE LET shorter == SeqsUpTo(S, n - 1)
         IN  shorter \cup {Append(s, x) : s \in shorter, x \in S}

SeqsOfLen(S, n) == {s \in SeqsUpTo(S, n) : Len(s) = n}

Targets == {1, 2}

\* Messages carried by exceptions of the database driver and the docker SDK.
Msgs == {<<"ORA-12541: TNS:no listener">>, <<"ORA-01017: invalid username/password">>}

---------------------------------------------------------------------------
(* Configuration (app.py:15-36), with the defaults of os.getenv.           *)

DB1_CONTAINER == "oracle-db1"
DB1_NAME == "Database 1"
DB1_CONFIG ==
    [host |-> "oracle-db1", port |-> "1521", sid |-> "ORCLCDB1",
     pdb |-> "ORCLPDB1", user |-> "SYS", pwd |-> "Welcome123456"]

DB2_CONTAINER == "oracle-db2"
DB2_NAME == "Database 2"
DB2_CONFIG ==
    [host |-> "oracle-db2", port |-> "1521", sid |-> "ORCLCDB2",
     pdb |-> "ORCLPDB2", user |-> "SYS", pwd |-> "Welcome123456"]

\* The arguments of the two display_db_panel calls (app.py:152, app.py:158).
PanelArgs(t) ==
    IF t = 1
    THEN [name |-> DB1_NAME, config |-> DB1_CONFIG, container_name |-> DB1_CONTAINER,
          db_key |-> "DB1"]
    ELSE [name |-> DB2_NAME, config |-> DB2_CONFIG, container_name |-> DB2_CONTAINER,
          db_key |-> "DB2"]

\* dsn = f"{config['host']}:{config['port']}/{config['pdb']}"
Dsn(config) == <<config.host, ":", config.port, "/", config.pdb>>

---------------------------------------------------------------------------
(* Exceptions and the try/except blocks.                                   *)

\* An exception object; base is the root class it derives from.
Exc(type, base, msg) == [type |-> type, base |-> base, msg |-> msg]

\* Variant of ExceptException: a handler that catches nothing, as if the
\* try/except were missing.
ExceptNothing(e) == FALSE

\* `except Exception` catches every class derived from Exception and lets
\* BaseException-only classes (streamlit's script control signals) pass.
ExceptException(e) == e.base = "Exception"

\* One call into a client library, as the library sees it.
Io(op, arg, ok) == [op |-> op, arg |-> arg, ok |-> ok]

\* Outcome of a block of code: it raised `exc` or returned `val`; io is the
\* sequence of library calls it made.
Raised(e, io) == [exc |-> <<e>>, val |-> <<>>, io |-> io]
Returned(v, io) == [exc |-> <<>>, val |-> <<v>>, io |-> io]

DatabaseError(db) == Exc("DatabaseError", "Exception", db.msg)

UnpackNoneMsg == <<"cannot unpack non-iterable NoneType object">>
SubscriptNoneMsg == <<"'NoneType' object is not subscriptable">>

---------------------------------------------------------------------------
(* check_connection (app.py:71-86).                                        *)

InstanceSql == <<"SELECT VERSION, INSTANCE_NAME, STATUS, DATABASE_STATUS FROM V$INSTANCE">>
SessionSql == <<"SELECT COUNT(*) FROM V$SESSION">>

\* What the database does during one probe: the library call that raises (or
\* "none"), the message of that error, and the result sets of the two queries.
ProbeFaults ==
    {"none", "connect", "cursor", "execute1", "fetchone1", "execute2", "fetchone2", "close"}
InstanceResultSets == {<<>>, << <<"19.3.0.0.0", "ORCLCDB", "OPEN", "ACTIVE">> >>}
SessionResultSets == {<<>>} \cup {<< <<n>> >> : n \in 0..MaxSessions}
ProbeWorlds ==
    [fault : ProbeFaults, msg : Msgs,
     instance : InstanceResultSets, sessions : SessionResultSets]

\* The body of the try block (app.py:74-84).
check_connection_try(config, db) ==
    LET dsn == Dsn(config)
        io1 == <<Io("connect", dsn, db.fault # "connect")>>
        io2 == Append(io1, Io("cursor", <<>>, db.fault # "cursor"))
        io3 == Append(io2, Io("execute", InstanceSql, db.fault # "execute1"))
        io4 == Append(io3, Io("fetchone", <<>>, db.fault # "fetchone1"))
        io5 == Append(io4, Io("execute", SessionSql, db.fault # "execute2"))
        io6 == Append(io5, Io("fetchone", <<>>, db.fault # "fetchone2"))
        io7 == Append(io6, Io("close", <<>>, db.fault # "close"))
    IN  IF db.fault = "connect" THEN Raised(DatabaseError(db), io1)
        ELSE IF db.fault = "cursor" THEN Raised(DatabaseError(db), io2)
        ELSE IF db.fault = "execute1" THEN Raised(DatabaseError(db), io3)
        ELSE IF db.fault = "fetchone1" THEN Raised(DatabaseError(db), io4)
        \* version, instance, status, db_status = None
        ELSE IF db.instance = <<>>
             THEN Raised(Exc("TypeError", "Exception", UnpackNoneMsg), io4)
        ELSE IF db.fault = "execute2" THEN Raised(DatabaseError(db), io5)
        ELSE IF db.fault = "fetchone2" THEN Raised(DatabaseError(db), io6)
        \* None[0]
        ELSE IF db.sessions = <<>>
             THEN Raised(Exc("TypeError", "Exception", SubscriptNoneMsg), io6)
        ELSE IF db.fault = "close" THEN Raised(DatabaseError(db), io7)
        ELSE LET row == Head(db.instance)
                 session_count == Head(db.sessions)[1]
             IN  Returned(
                     [status |-> "Online", color |-> "green",
                      details |-> [Version |-> row[1], Instance |-> row[2],
                                   Mode |-> <<row[3], " / ", row[4]>>,
                                   Sessions |-> session_count]],
                     io7)

\* Variant of check_connection: once the instance row is fetched, a later
\* failure is swallowed and the record is Online with what was read.
check_connection_partial(config, db) ==
    LET body == check_connection_try(config, db)
    IN  IF body.exc # <<>> /\ Len(body.io) >= 5
        THEN LET row == Head(db.instance)
             IN  Returned(
                     [status |-> "Online", color |-> "green",
                      details |-> [Version |-> row[1], Instance |-> row[2],
                                   Mode |-> <<row[3], " / ", row[4]>>,
                                   Sessions |-> 0]],
                     body.io)
        ELSE IF body.exc # <<>>
        THEN Returned(
                 [status |-> "Initializing / Offline", color |-> "orange",
                  error |-> body.exc[1].msg],
                 body.io)
        ELSE body

\* try ... except Exception as e: return the Offline record.
check_connection(config, db) ==
    LET body == check_connection_try(config, db)
    IN  IF body.exc # <<>> /\ ExceptException(body.exc[1])
        THEN Returned(
                 [status |-> "Initializing / Offline", color |-> "orange",
                  error |-> body.exc[1].msg],
                 body.io)
        ELSE body

---------------------------------------------------------------------------
(* execute_query (app.py:49-69).                                           *)

ColumnNames == {"X", "Y"}
CellValues == {1, 2}

\* cursor.description: one descriptor per column, its name first; <<>> is the
\* None the driver reports for a statement that returns no rows.
Descriptions ==
    {[i \in 1..Len(names) |-> <<names[i], "DB_TYPE_NUMBER">>] :
        names \in SeqsUpTo(ColumnNames, MaxCols) \ {<<>>}}

RowLists(width) == SeqsUpTo(SeqsOfLen(CellValues, width), MaxRows)

AnyMsg == CHOOSE m \in Msgs : TRUE

\* What the database does during one statement: the library call that raises
\* (or "none") and its message, the column description and the rows. Rows
\* that are never fetched and messages that are never raised are fixed.
QueryWorlds ==
    [fault : {"connect", "cursor", "execute", "commit", "close"}, msg : Msgs,
     description : {<<>>}, rows : {<<>>}]
    \cup [fault : {"none"}, msg : {AnyMsg}, description : {<<>>}, rows : {<<>>}]
    \cup [fault : {"fetchall", "close"}, msg : Msgs,
          description : Descriptions, rows : {<<>>}]
    \cup UNION {[fault : {"none"}, msg : {AnyMsg}, description : {d},
                 rows : RowLists(Len(d))] : d \in Descriptions}

Min(a, b) == IF a <= b THEN a ELSE b

\* zip(columns, row): pairs up to the shorter argument.
Zip(columns, row) ==
    [i \in 1..Min(Len(columns), Len(row)) |-> <<columns[i], row[i]>>]

\* d[k] = v on an insertion-ordered dict, kept as a sequence of <<key, value>>:
\* an existing key keeps its place and takes the new value.
DictSet(d, k, v) ==
    IF \E i \in DOMAIN d : d[i][1] = k
    THEN [i \in DOMAIN d |-> IF d[i][1] = k THEN <<k, v>> ELSE d[i]]
    ELSE Append(d, <<k, v>>)

RECURSIVE DictFrom(_, _)
DictFrom(d, pairs) ==
    IF pairs = <<>> THEN d
    ELSE DictFrom(DictSet(d, Head(pairs)[1], Head(pairs)[2]), Tail(pairs))

\* dict(pairs)
Dict(pairs) == DictFrom(<<>>, pairs)

AckMessage == <<"Statement executed successfully (No Output).">>

\* The branch for a statement with a column description (app.py:57-62);
\* io3 is the calls made so far.
execute_query_rows(io3, db) ==
    LET columns == [i \in DOMAIN db.description |-> db.description[i][1]]
        io4 == Append(io3, Io("fetchall", <<>>, db.fault # "fetchall"))
        data == db.rows
        result == [r \in DOMAIN data |-> Dict(Zip(columns, data[r]))]
        io5 == Append(io4, Io("close", <<>>, db.fault # "close"))
    IN  IF db.fault = "fetchall" THEN Raised(DatabaseError(db), io4)
        ELSE IF db.fault = "close" THEN Raised(DatabaseError(db), io5)
        ELSE Returned([success |-> TRUE, data |-> result], io5)

\* Variant of execute_query_no_output: the session is closed without a commit.
execute_query_no_commit(io3, db) ==
    LET io4 == Append(io3, Io("close", <<>>, db.fault # "close"))
    IN  IF db.fault = "close" THEN Raised(DatabaseError(db), io4)
        ELSE Returned([success |-> TRUE, message |-> AckMessage], io4)

\* The branch for a statement without one (app.py:64-66).
execute_query_no_output(io3, db) ==
    LET io4 == Append(io3, Io("commit", <<>>, db.fault # "commit"))
        io5 == Append(io4, Io("close", <<>>, db.fault # "close"))
    IN  IF db.fault = "commit" THEN Raised(DatabaseError(db), io4)
        ELSE IF db.fault = "close" THEN Raised(DatabaseError(db), io5)
        ELSE Returned([success |-> TRUE, message |-> AckMessage], io5)

\* The body of the try block (app.py:52-66).
execute_query_try(config, query, db) ==
    LET dsn == Dsn(config)
        io1 == <<Io("connect", dsn, db.fault # "connect")>>
        io2 == Append(io1, Io("cursor", <<>>, db.fault # "cursor"))
        io3 == Append(io2, Io("execute", query, db.fault # "execute"))
    IN  IF db.fault = "connect" THEN Raised(DatabaseError(db), io1)
        ELSE IF db.fault = "cursor" THEN Raised(DatabaseError(db), io2)
        ELSE IF db.fault = "execute" THEN Raised(DatabaseError(db), io3)
        ELSE IF db.description # <<>> THEN execute_query_rows(io3, db)
        ELSE execute_query_no_output(io3, db)

\* Variant of execute_query: a failed attempt is tried once more.
execute_query_retry(config, query, db) ==
    LET body == execute_query_try(config, query, db)
        again == execute_query_try(config, query, db)
    IN  IF body.exc = <<>> THEN body
        ELSE IF again.exc = <<>> THEN Returned(again.val[1], body.io \o again.io)
        ELSE Returned([success |-> FALSE, error |-> again.exc[1].msg],
                      body.io \o again.io)

\* try ... except Exception as e: return the failure record.
execute_query(config, query, db) ==
    LET body == execute_query_try(config, query, db)
    IN  IF body.exc # <<>> /\ ExceptException(body.exc[1])
        THEN Returned([success |-> FALSE, error |-> body.exc[1].msg], body.io)
        ELSE body

---------------------------------------------------------------------------
(* get_container_logs (app.py:39-47).                                      *)

LogTail == 50

\* Bytes the runtime may return: "A", and the two bytes of UTF-8 "e-acute".
LogBytes == {65, 195, 169}

HexDigits == <<"0", "1", "2", "3", "4", "5", "6", "7",
               "8", "9", "a", "b", "c", "d", "e", "f">>

\* str(e) of the UnicodeDecodeError that bytes.decode('utf-8') raises on
\* the byte at 0-based position pos.
DecodeErrorMsg(byte, pos, reason) ==
    <<"'utf-8' codec can't decode byte ",
      "0x", HexDigits[(byte \div 16) + 1], HexDigits[(byte % 16) + 1],
      " in position ", ToString(pos), ": ", reason>>

\* bytes.decode('utf-8') on LogBytes, read from the 0-based position pos of
\* b: [ok, text, msg]. A byte below 128 is one character; 195 starts a
\* two-byte character and needs a continuation byte (128..191) after it; a
\* continuation byte cannot start a character. The first byte that cannot
\* be decoded ends the decoding with its error.
RECURSIVE Utf8DecodeFrom(_, _)
Utf8DecodeFrom(b, pos) ==
    IF pos >= Len(b) THEN [ok |-> TRUE, text |-> <<>>, msg |-> <<>>]
    ELSE LET byte == b[pos + 1]
         IN  IF byte < 128
             THEN LET rest == Utf8DecodeFrom(b, pos + 1)
                  IN  [rest EXCEPT !.text = IF rest.ok THEN <<"A">> \o @ ELSE @]
             ELSE IF byte < 192
             THEN [ok |-> FALSE, text |-> <<>>,
                   msg |-> DecodeErrorMsg(byte, pos, "invalid start byte")]
             ELSE IF pos + 1 >= Len(b)
             THEN [ok |-> FALSE, text |-> <<>>,
                   msg |-> DecodeErrorMsg(byte, pos, "unexpected end of data")]
             ELSE IF b[pos + 2] < 128 \/ b[pos + 2] >= 192
             THEN [ok |-> FALSE, text |-> <<>>,
                   msg |-> DecodeErrorMsg(byte, pos, "invalid continuation byte")]
             ELSE LET rest == Utf8DecodeFrom(b, pos + 2)
                  IN  [rest EXCEPT !.text = IF rest.ok THEN <<"e-acute">> \o @ ELSE @]

Utf8Decode(b) == Utf8DecodeFrom(b, 0)

\* What the container runtime does during one log fetch.
LogWorlds ==
    [fault : {"get", "logs"}, msg : Msgs, bytes : {<<>>}]
    \cup [fault : {"none"}, msg : {AnyMsg}, bytes : SeqsUpTo(LogBytes, MaxLogLen)]

NoClientMessage == <<"Docker socket not connected. Cannot fetch logs.">>

\* The body of the try block (app.py:43-45).
get_container_logs_try(container_name, rt) ==
    LET io1 == <<Io("containers.get", <<container_name>>, rt.fault # "get")>>
        io2 == Append(io1, Io("logs", <<"tail", LogTail>>, rt.fault # "logs"))
        decoded == Utf8Decode(rt.bytes)
    IN  IF rt.fault = "get" THEN Raised(Exc("NotFound", "Exception", rt.msg), io1)
        ELSE IF rt.fault = "logs" THEN Raised(Exc("APIError", "Exception", rt.msg), io2)
        ELSE IF ~decoded.ok
             THEN Raised(Exc("UnicodeDecodeError", "Exception", decoded.msg), io2)
        ELSE Returned(decoded.text, io2)

get_container_logs(container_name, client, rt) ==
    IF client = "None" THEN Returned(NoClientMessage, <<>>)
    ELSE LET body == get_container_logs_try(container_name, rt)
         IN  IF body.exc # <<>> /\ ExceptException(body.exc[1])
             THEN Returned(
                      <<"Error reading logs for ", container_name, ": ">>
                          \o body.exc[1].msg,
                      body.io)
             ELSE body

---------------------------------------------------------------------------
(* Direct calls of the three helper functions, with any arguments: each     *)
(* behaviour of SpecCalls is one call from a fresh process.                *)

\* str.strip() on a statement typed from the characters " " and "S".
RECURSIVE LStrip(_)
LStrip(s) == IF s # <<>> /\ Head(s) = " " THEN LStrip(Tail(s)) ELSE s

RECURSIVE RStrip(_)
RStrip(s) ==
    IF s # <<>> /\ s[Len(s)] = " " THEN RStrip(SubSeq(s, 1, Len(s) - 1)) ELSE s

Strip(s) == RStrip(LStrip(s))

Statements == SeqsUpTo({" ", "S"}, MaxStmtLen)

NoCall == [fn |-> "none"]

CallCheckConnection ==
    /\ call = NoCall
    /\ \E t \in Targets, db \in ProbeWorlds :
        call' = [fn |-> "check_connection", target |-> t, world |-> db,
                 out |-> check_connection(PanelArgs(t).config, db)]
    /\ UNCHANGED <<docker_client, session_state, pc, col, event, view, ncalls, res>>

CallExecuteQuery ==
    /\ call = NoCall
    /\ \E t \in Targets, query \in Statements, db \in QueryWorlds :
        call' = [fn |-> "execute_query", target |-> t, query |-> query, world |-> db,
                 out |-> execute_query(PanelArgs(t).config, query, db)]
    /\ UNCHANGED <<docker_client, session_state, pc, col, event, view, ncalls, res>>

CallGetContainerLogs ==
    /\ call = NoCall
    /\ \E t \in Targets, rt \in LogWorlds :
        call' = [fn |-> "get_container_logs", target |-> t, world |-> rt,
                 out |-> get_container_logs(PanelArgs(t).container_name,
                                            docker_client, rt)]
    /\ UNCHANGED <<docker_client, session_state, pc, col, event, view, ncalls, res>>

---------------------------------------------------------------------------
(* The script run (app.py:88-160): streamlit runs the whole script once    *)
(* for the page load and once for every widget interaction.                *)

\* The widget state a script run starts with: a plain load, or one button
\* pressed. "rerun" is the run st.rerun() starts: no button is pressed in it.
NoEvent == [kind |-> "start", target |-> 0, query |-> <<>>]
LoadEvent == [kind |-> "load", target |-> 0, query |-> <<>>]
LogsEvent(t) == [kind |-> "logs", target |-> t, query |-> <<>>]
RunEvent(t, query) == [kind |-> "run", target |-> t, query |-> query]
RerunEvent(t) == [kind |-> "rerun", target |-> t, query |-> <<>>]

EmptyView == [status |-> <<>>, logs |-> <<>>, query |-> <<>>, warning |-> FALSE,
              info |-> <<>>, box |-> <<>>]

NoCalls == [probe |-> 0, logs |-> 0, query |-> 0]

\* docker.from_env() either gives a client or raises, and the except clause
\* leaves docker_client = None (app.py:9-13).
DockerFromEnv == {"None", "DockerClient"}

\* The process before the first script run; a directly called helper sees
\* the global as the module's execution bound it.
Init ==
    /\ docker_client \in DockerFromEnv
    /\ session_state = [k \in {} |-> <<>>]
    /\ pc = "idle"
    /\ col = 1
    /\ event = NoEvent
    /\ view = [t \in Targets |-> EmptyView]
    /\ ncalls = [t \in Targets |-> NoCalls]
    /\ res = <<>>
    /\ call = NoCall

\* The position of the script and the page it has drawn so far.
Place(p, c, ev, v, nc, r) ==
    /\ pc' = p
    /\ col' = c
    /\ event' = ev
    /\ view' = v
    /\ ncalls' = nc
    /\ res' = r

\* A step inside a script run: the module global keeps its binding.
Go(p, c, ev, v, nc, r) ==
    /\ Place(p, c, ev, v, nc, r)
    /\ docker_client' = docker_client

\* A script run executes the script from its first line: docker_client is
\* bound again by docker.from_env() (app.py:9-13), and the page is empty.
StartRun(ev) ==
    /\ docker_client' \in DockerFromEnv
    /\ Place("status", 1, ev, [t \in Targets |-> EmptyView],
             [t \in Targets |-> NoCalls], <<>>)

PageLoad ==
    /\ pc = "idle"
    /\ StartRun(LoadEvent)
    /\ UNCHANGED <<session_state, call>>

PressRefreshLogs ==
    /\ pc = "idle"
    /\ \E t \in Targets : StartRun(LogsEvent(t))
    /\ UNCHANGED <<session_state, call>>

PressRunQuery ==
    /\ pc = "idle"
    /\ \E t \in Targets, query \in Statements : StartRun(RunEvent(t, query))
    /\ UNCHANGED <<session_state, call>>

\* display_db_panel returned, or its exception was handled: the script goes
\* on with `with col2:` after the first panel and ends after the second.
PanelExit(v, nc, r) ==
    IF col = 1 THEN Go("status", 2, event, v, nc, r) ELSE Go("idle", 1, event, v, nc, r)

\* f"Error loading DB1 Panel: {e}" and f"Error loading DB2 Panel: {e}"
PanelErrorBox(c, e) ==
    <<"Error loading ", IF c = 1 THEN "DB1" ELSE "DB2", " Panel: ">> \o e.msg

\* Variant of PanelRaises: display_db_panel is called without try/except.
PanelRaisesUncaught(e, v, nc, r) ==
    IF e.type = "RerunException"
    THEN StartRun(RerunEvent(event.target))
    ELSE Go("idle", 1, event, v, nc, r)

\* Exception e leaves display_db_panel inside try/except Exception
\* (app.py:151-154, 157-160). A caught exception becomes st.error in that
\* column. streamlit's RerunException is not an Exception: it passes, and the
\* script runner starts the script again with every button released. Any
\* other exception ends the script run.
PanelRaises(e, v, nc, r) ==
    IF ExceptException(e)
    THEN PanelExit([v EXCEPT ![col].box = <<PanelErrorBox(col, e)>>], nc, r)
    ELSE IF e.type = "RerunException"
    THEN StartRun(RerunEvent(event.target))
    ELSE Go("idle", 1, event, v, nc, r)

\* What the database and the container runtime do during a script run is
\* drawn from these parts of the worlds above: one error message, a probe
\* that fails at connect, finds no instance row or succeeds, a log fetch
\* that finds no container or returns one character, and a statement that
\* fails at connect, has no description or returns one row of one column.
UiProbeWorlds ==
    {db \in ProbeWorlds :
        /\ db.msg = AnyMsg
        /\ db.fault \in {"none", "connect"}
        /\ db.sessions = << <<0>> >>}

UiLogWorlds ==
    {rt \in LogWorlds :
        /\ rt.msg = AnyMsg
        /\ rt.fault = "get" \/ (rt.fault = "none" /\ rt.bytes = <<65>>)}

UiQueryWorlds ==
    {db \in QueryWorlds :
        /\ db.msg = AnyMsg
        /\ db.fault \in {"none", "connect"}
        /\ \/ db.description = <<>>
           \/ db.description = << <<"X", "DB_TYPE_NUMBER">> >> /\ db.rows = << <<1>> >>}

\* What the status tab shows for a check_connection result (app.py:95-105).
StatusView(result) ==
    IF result.status = "Online"
    THEN [kind |-> "success", status |-> result.status,
          Sessions |-> result.details.Sessions, Version |-> result.details.Version,
          Mode |-> result.details.Mode]
    ELSE [kind |-> "warning", status |-> result.status,
          code |-> IF "error" \in DOMAIN result THEN result.error ELSE <<"Unknown">>]

\* with tab_status (app.py:93-105)
TabStatus ==
    /\ pc = "status"
    /\ \E db \in UiProbeWorlds :
        LET out == check_connection(PanelArgs(col).config, db)
            nc == [ncalls EXCEPT ![col].probe = @ + 1]
        IN  IF out.exc # <<>>
            THEN PanelRaises(out.exc[1], view, nc, res)
            ELSE Go("logs", col, event,
                    [view EXCEPT ![col].status = <<StatusView(out.val[1])>>], nc, res)
    /\ UNCHANGED <<session_state, call>>

\* st.button(..., key=f"btn_{db_key}") is True in the run its press started.
RefreshLogsPressed(t) == event.kind = "logs" /\ event.target = t

\* with tab_logs, button pressed: st.rerun() (app.py:108-109)
TabLogsRerun ==
    /\ pc = "logs"
    /\ RefreshLogsPressed(col)
    /\ PanelRaises(Exc("RerunException", "BaseException", <<>>), view, ncalls, res)
    /\ UNCHANGED <<session_state, call>>

\* with tab_logs, button not pressed (app.py:108-111)
TabLogs ==
    /\ pc = "logs"
    /\ ~RefreshLogsPressed(col)
    /\ \E rt \in UiLogWorlds :
        LET out == get_container_logs(PanelArgs(col).container_name, docker_client, rt)
            nc == [ncalls EXCEPT ![col].logs = @ + 1]
        IN  IF out.exc # <<>>
            THEN PanelRaises(out.exc[1], view, nc, res)
            ELSE Go("query", col, event,
                    [view EXCEPT ![col].logs = <<out.val[1]>>], nc, res)
    /\ UNCHANGED <<session_state, call>>

\* Variant of ResultKey: one key for both panels.
ResultKeyShared(db_key) == <<"res_">>

\* result_key = f"res_{db_key}"
ResultKey(db_key) == <<"res_", db_key>>

\* st.session_state[key] = value
SessionSet(ss, key, value) ==
    [k \in DOMAIN ss \cup {key} |-> IF k = key THEN value ELSE ss[k]]

\* st.button("Run Query", key=f"run_{db_key}") is True in the run its press started.
RunQueryPressed(t) == event.kind = "run" /\ event.target = t

DataframeError == Exc("ArrowInvalid", "Exception", <<"Could not convert value">>)

\* What the query tab draws for a stored result (app.py:130-139): each
\* element is named by the streamlit call that draws it. st.write draws the
\* row count before st.dataframe is called, so a st.dataframe that raises
\* leaves the count alone on the page.
DrawResult(res_, raises) ==
    IF res_.success
    THEN IF "data" \in DOMAIN res_
         THEN <<[write |-> <<"**Results (", ToString(Len(res_.data)), " rows):**">>]>>
              \o (IF raises THEN <<>> ELSE <<[dataframe |-> res_.data]>>)
         ELSE <<[success |-> res_.message]>>
    ELSE <<[error |-> <<"Error: ">> \o res_.error]>>

\* with tab_query (app.py:113-139). db is what the database does if the
\* statement is executed; raises says whether st.dataframe raises on the rows.
QueryTab(db, raises) ==
    LET args == PanelArgs(col)
        result_key == ResultKey(args.db_key)
        query == IF RunQueryPressed(col) THEN event.query ELSE <<>>
        run == RunQueryPressed(col) /\ Strip(query) # <<>>
        out == execute_query(args.config, query, db)
        nc == IF run THEN [ncalls EXCEPT ![col].query = @ + 1] ELSE ncalls
    IN  IF run /\ out.exc # <<>>
        THEN /\ ~raises
             /\ PanelRaises(out.exc[1], view, nc, res)
             /\ UNCHANGED session_state
        ELSE LET r == IF run THEN out.val ELSE res
                 ss == IF run THEN SessionSet(session_state, result_key, out.val[1])
                       ELSE session_state
                 warned == RunQueryPressed(col) /\ ~run
                 stored == result_key \in DOMAIN ss
                 rows == stored /\ ss[result_key].success
                                /\ "data" \in DOMAIN ss[result_key]
                 shown == IF stored THEN DrawResult(ss[result_key], raises) ELSE <<>>
                 v == [view EXCEPT ![col].query = shown, ![col].warning = warned]
             IN  /\ session_state' = ss
                 /\ IF raises
                    THEN rows /\ PanelRaises(DataframeError, v, nc, r)
                    ELSE Go("info", col, event, v, nc, r)

TabQuery ==
    /\ pc = "query"
    /\ \E db \in UiQueryWorlds : QueryTab(db, FALSE)
    /\ UNCHANGED call

TabQueryDataframeRaises ==
    /\ pc = "query"
    /\ \E db \in UiQueryWorlds : QueryTab(db, TRUE)
    /\ UNCHANGED call

\* with tab_info (app.py:141-143), the last statement of display_db_panel
TabInfo ==
    /\ pc = "info"
    /\ LET config == PanelArgs(col).config
       IN  PanelExit([view EXCEPT ![col].info = <<Dsn(config), <<config.sid>> >>],
                     ncalls, res)
    /\ UNCHANGED <<session_state, call>>

Next ==
    \/ PageLoad
    \/ PressRefreshLogs
    \/ PressRunQuery
    \/ TabStatus
    \/ TabLogsRerun
    \/ TabLogs
    \/ TabQuery
    \/ TabQueryDataframeRaises
    \/ TabInfo

Spec == Init /\ [][Next]_vars

NextCalls == CallCheckConnection \/ CallExecuteQuery \/ CallGetContainerLogs

SpecCalls == Init /\ [][NextCalls]_vars

---------------------------------------------------------------------------
(* Properties of the helper functions, checked under SpecCalls.            *)

IoOk(io, k) == Len(io) >= k /\ io[k].ok
AllOk(io, n) == Len(io) = n /\ \A i \in DOMAIN io : io[i].ok
CountOp(io, op) == Cardinality({i \in DOMAIN io : io[i].op = op})
ContainsToken(s, tok) == \E i \in DOMAIN s : s[i] = tok

IsProbe == call.fn = "check_connection"
IsQuery == call.fn = "execute_query"
IsLogs == call.fn = "get_container_logs"

\* C1: a returned check_connection or execute_query call that opened a
\* session has closed it: on every exit path after a successful connect,
\* close is among the calls made to the driver.
C1_SessionClosedOnReturn ==
    (IsProbe \/ IsQuery) /\ IoOk(call.out.io, 1)
        => \E i \in DOMAIN call.out.io : call.out.io[i].op = "close"

ConnectSucceeded == IoOk(call.out.io, 1)
InstanceRowReturned ==
    IoOk(call.out.io, 3) /\ IoOk(call.out.io, 4) /\ call.world.instance # <<>>
SessionCountSucceeded ==
    IoOk(call.out.io, 5) /\ IoOk(call.out.io, 6) /\ call.world.sessions # <<>>
CloseSucceeded == IoOk(call.out.io, 7)

\* The message of the failure that ended the probe.
ProbeUnderlyingError ==
    IF \E i \in DOMAIN call.out.io : ~call.out.io[i].ok THEN call.world.msg
    ELSE IF call.world.instance = <<>> THEN UnpackNoneMsg
    ELSE SubscriptNoneMsg

ProbeRecordIs(online) ==
    /\ call.out.exc = <<>>
    /\ call.out.val # <<>>
    /\ LET result == call.out.val[1]
       IN  /\ result.status = "Online" <=> online
           /\ ~online =>
                /\ "error" \in DOMAIN result
                /\ result.error = ProbeUnderlyingError
                /\ "details" \notin DOMAIN result

\* C2 as stated: the record is Online exactly when the connect succeeded,
\* the instance query returned a row and the session count succeeded;
\* otherwise it carries the underlying error and no detail fields.
C2_OnlineIffQueriesSucceeded ==
    IsProbe =>
        ProbeRecordIs(ConnectSucceeded /\ InstanceRowReturned /\ SessionCountSucceeded)

\* C2 amended: Online exactly when, in addition, closing the session
\* succeeded; otherwise the record carries the underlying error and no
\* detail fields.
C2_OnlineIffAllStepsSucceeded ==
    IsProbe =>
        ProbeRecordIs(/\ ConnectSucceeded /\ InstanceRowReturned
                      /\ SessionCountSucceeded /\ CloseSucceeded)

\* Both queries answered, close raised, and the record is Offline with the
\* message of the close error.
C2_Witness ==
    /\ IsProbe
    /\ ConnectSucceeded /\ InstanceRowReturned /\ SessionCountSucceeded
    /\ ~CloseSucceeded
    /\ call.out.val[1].status = "Initializing / Offline"
    /\ call.out.val[1].error = call.world.msg

\* C4: execute_query called with an empty or whitespace-only statement
\* makes no call to the database and does not return a Success,
\* Acknowledged or Failure result.
C4_BlankStatementRejected ==
    IsQuery /\ Strip(call.query) = <<>> =>
        /\ call.out.io = <<>>
        /\ call.out.val = <<>> \/ "success" \notin DOMAIN call.out.val[1]

ProbeFailed == ~AllOk(call.out.io, 7)
QueryFailed == ~AllOk(call.out.io, 5)
LogsFailed ==
    \/ docker_client = "None"
    \/ ~AllOk(call.out.io, 2)
    \/ ~Utf8Decode(call.world.bytes).ok

FailureIsValue(logsFailureValue) ==
    call.fn # "none" =>
        /\ call.out.exc = <<>>
        /\ call.out.val # <<>>
        /\ IsProbe /\ ProbeFailed =>
                /\ "error" \in DOMAIN call.out.val[1]
                /\ call.out.val[1].error # <<>>
        /\ IsQuery /\ QueryFailed =>
                /\ call.out.val[1].success = FALSE
                /\ "error" \in DOMAIN call.out.val[1]
        /\ IsLogs /\ LogsFailed => logsFailureValue

LogsNameContainer ==
    ContainsToken(call.out.val[1], PanelArgs(call.target).container_name)

\* C5 as stated: no failure leaves a helper as an exception; each returns a
\* status record with an error, a Failure result, or (for every log
\* failure, an unavailable runtime included) a string naming the container.
C5_FailuresAreValues == FailureIsValue(LogsNameContainer)

\* C5 amended: as stated, except that with no container runtime the log
\* fetcher returns the fixed text "Docker socket not connected. Cannot
\* fetch logs.", which does not name the container.
C5_FailuresAreValuesOrSentinel ==
    FailureIsValue(IF docker_client = "None"
                   THEN call.out.val[1] = NoClientMessage /\ call.out.io = <<>>
                   ELSE LogsNameContainer)

\* A log fetch without a container runtime returned the fixed text.
C5_Witness ==
    /\ IsLogs
    /\ docker_client = "None"
    /\ call.out.val = <<NoClientMessage>>
    /\ ~LogsNameContainer

Submitted == CountOp(call.out.io, "execute")

\* C6 as stated: a non-blank statement makes one connection attempt and is
\* submitted at most once, exactly once when the connect succeeds.
C6_ExecutedOnceWhenConnected ==
    IsQuery /\ Strip(call.query) # <<>> =>
        /\ CountOp(call.out.io, "connect") = 1
        /\ Submitted <= 1
        /\ ConnectSucceeded => Submitted = 1

\* C6 amended: one connection attempt; the statement is submitted exactly
\* once when the connect and the cursor creation succeed and not at all
\* otherwise, and what is submitted is the caller's statement.
C6_ExecutedOnceWhenCursorOpen ==
    IsQuery /\ Strip(call.query) # <<>> =>
        /\ CountOp(call.out.io, "connect") = 1
        /\ Submitted = IF IoOk(call.out.io, 1) /\ IoOk(call.out.io, 2) THEN 1 ELSE 0
        /\ \A i \in DOMAIN call.out.io :
              call.out.io[i].op = "execute" => call.out.io[i].arg = call.query

\* The connect succeeded, cursor creation raised, nothing was submitted and
\* the call returned a Failure.
C6_Witness ==
    /\ IsQuery
    /\ Strip(call.query) # <<>>
    /\ ConnectSucceeded
    /\ ~IoOk(call.out.io, 2)
    /\ Submitted = 0
    /\ call.out.val[1].success = FALSE

ExecutedOk == IoOk(call.out.io, 3)

CommittedThenClosed(io) ==
    \E i, j \in DOMAIN io :
        i < j /\ io[i].op = "commit" /\ io[i].ok /\ io[j].op = "close"

\* C7 as stated: a statement that executed and has no column description is
\* committed before the session is closed and returns Acknowledged with
\* "Statement executed successfully (No Output)"; one with a description
\* returns Success with rows and never Acknowledged.
C7_AcknowledgedAfterCommit ==
    IsQuery /\ ExecutedOk =>
        /\ call.out.val # <<>>
        /\ IF call.world.description = <<>>
           THEN /\ CommittedThenClosed(call.out.io)
                /\ call.out.val[1] =
                     [success |-> TRUE,
                      message |-> <<"Statement executed successfully (No Output)">>]
           ELSE /\ call.out.val[1].success
                /\ "data" \in DOMAIN call.out.val[1]
                /\ "message" \notin DOMAIN call.out.val[1]

QueryFailureReturned ==
    call.out.val[1] = [success |-> FALSE, error |-> call.world.msg]

\* C7 amended: without a description, commit is the call after execute and
\* precedes every close, and if commit and close succeed the result is
\* Acknowledged with "Statement executed successfully (No Output)." (with
\* the full stop) and no rows; with a description nothing is committed, and
\* if fetchall and close succeed the result is Success with rows and no
\* message. When commit, fetchall or close raises the result is Failure.
C7_AcknowledgedWhenCommitted ==
    IsQuery /\ ExecutedOk =>
        /\ call.out.val # <<>>
        /\ IF call.world.description = <<>>
           THEN /\ Len(call.out.io) >= 4 /\ call.out.io[4].op = "commit"
                /\ \A j \in DOMAIN call.out.io : call.out.io[j].op = "close" => j > 4
                /\ IF AllOk(call.out.io, 5)
                   THEN call.out.val[1] =
                          [success |-> TRUE,
                           message |-> <<"Statement executed successfully (No Output).">>]
                   ELSE QueryFailureReturned
           ELSE /\ CountOp(call.out.io, "commit") = 0
                /\ IF AllOk(call.out.io, 5)
                   THEN /\ call.out.val[1].success
                        /\ "data" \in DOMAIN call.out.val[1]
                        /\ "message" \notin DOMAIN call.out.val[1]
                   ELSE QueryFailureReturned

\* A statement without a description was committed, the session closed, and
\* the result is Acknowledged.
C7_Witness ==
    /\ IsQuery
    /\ ExecutedOk
    /\ call.world.description = <<>>
    /\ CommittedThenClosed(call.out.io)
    /\ call.out.val[1].success
    /\ "message" \in DOMAIN call.out.val[1]

\* C10: a Success result holds one mapping per fetched row, in row order,
\* and each mapping holds one entry per described column, in column order,
\* with the row's value at that position.
C10_OneEntryPerColumn ==
    IsQuery /\ call.out.val # <<>> /\ "data" \in DOMAIN call.out.val[1] =>
        LET data == call.out.val[1].data
            description == call.world.description
            rows == call.world.rows
        IN  /\ Len(data) = Len(rows)
            /\ \A r \in DOMAIN data :
                  data[r] = [j \in DOMAIN description |->
                                <<description[j][1], rows[r][j]>>]

---------------------------------------------------------------------------
(* Properties of the script run, checked under Spec.                       *)

\* The step ends the drawing of panel c: the script run stops or goes to
\* the top of a panel.
EndsPanel(c) == pc # "idle" /\ col = c /\ pc' \in {"idle", "status"}

\* A step taken while a panel is drawn changes nothing in the other panel.
OtherPanelUntouched == \A t \in Targets : t # col => view'[t] = view[t]

\* The step is st.rerun() restarting the script on a Refresh Logs press.
RerunStep ==
    /\ pc = "logs"
    /\ RefreshLogsPressed(col)
    /\ pc' = "status" /\ col' = 1
    /\ event' = RerunEvent(col)

\* Whatever ended panel c, it was drawn: its status is shown, and it shows
\* either its last tab or the error of the exception that ended it, which
\* names this panel.
PanelDrawn(v, c) ==
    /\ v[c].status # <<>>
    /\ v[c].info # <<>> \/ v[c].box # <<>>
    /\ v[c].box # <<>> => ContainsToken(v[c].box[1], PanelArgs(c).db_key)

PanelsInTurn ==
    /\ EndsPanel(1) => pc' = "status" /\ col' = 2 /\ event' = event /\ PanelDrawn(view', 1)
    /\ EndsPanel(2) => pc' = "idle" /\ event' = event
                       /\ PanelDrawn(view', 1) /\ PanelDrawn(view', 2)
    /\ pc # "idle" => OtherPanelUntouched

\* C3 as stated: in every script run the first panel is followed by the
\* second, whatever failed while the first was drawn; a failure shows only
\* in its own panel and no exception leaves the panel boundary.
C3_SecondPanelAlwaysDrawn == [][PanelsInTurn]_vars

\* C3 amended: the same in every script run that a Refresh Logs press does
\* not restart. On such a press st.rerun() raises streamlit's rerun signal,
\* which is not an Exception: it leaves the panel boundary, the rest of that
\* run is not drawn, and the script starts again with no button pressed.
C3_SecondPanelDrawnUnlessRerun == [][RerunStep \/ PanelsInTurn]_vars

\* A run has ended in which the first panel showed a failed probe and the
\* error of an exception raised while it was drawn, and the second panel
\* was drawn to its last tab with an Online status.
C3_Witness ==
    /\ pc = "idle"
    /\ event.kind = "run"
    /\ view[1].status # <<>> /\ view[1].status[1].kind = "warning"
    /\ view[1].box # <<>>
    /\ view[1].info = <<>>
    /\ view[2].status # <<>> /\ view[2].status[1].kind = "success"
    /\ view[2].box = <<>>
    /\ view[2].info # <<>>

\* The last-result slot of target t: <<>> while the key is not in
\* st.session_state.
Slot(ss, t) ==
    LET key == ResultKey(PanelArgs(t).db_key)
    IN  IF key \in DOMAIN ss THEN <<ss[key]>> ELSE <<>>

RunsQuery(t) ==
    pc = "query" /\ col = t /\ RunQueryPressed(t) /\ Strip(event.query) # <<>>

\* The slot of target t is written only by that target's Run Query with a
\* non-blank statement, by one call of execute_query whose result it holds.
SlotFrame(t) ==
    /\ Slot(session_state', t) # Slot(session_state, t) => RunsQuery(t)
    /\ RunsQuery(t) =>
         /\ ncalls[t].query = 0
         /\ ncalls'[t].query = 1
         /\ res' # <<>>
         /\ Slot(session_state', t) = res'
    /\ ncalls'[t].query # ncalls[t].query => RunsQuery(t) \/ pc' = "status"
    /\ pc # "idle" /\ pc' = "idle" =>
         ncalls'[t].query = IF RunQueryPressed(t) /\ Strip(event.query) # <<>>
                            THEN 1 ELSE 0

HasRows(slot) == slot # <<>> /\ slot[1].success /\ "data" \in DOMAIN slot[1]

\* The drawn query tab displays the slot: nothing for an empty slot, the
\* rows of a Success in a table, the message of an Acknowledged, the error
\* text of a Failure.
ShowsSlot(drawn, slot) ==
    IF slot = <<>> THEN drawn = <<>>
    ELSE \E i \in DOMAIN drawn :
            IF HasRows(slot)
            THEN "dataframe" \in DOMAIN drawn[i] /\ drawn[i].dataframe = slot[1].data
            ELSE IF slot[1].success
            THEN "success" \in DOMAIN drawn[i] /\ drawn[i].success = slot[1].message
            ELSE /\ "error" \in DOMAIN drawn[i]
                 /\ drawn[i].error = <<"Error: ">> \o slot[1].error

\* Of a Success slot only the row count is on the page, and the panel's
\* error box carries the exception st.dataframe raised.
ShowsCountAndError(v, slot) ==
    /\ HasRows(slot)
    /\ v.query = <<[write |-> <<"**Results (", ToString(Len(slot[1].data)), " rows):**">>]>>
    /\ v.box # <<>>
    /\ ContainsToken(v.box[1], DataframeError.msg[1])
    /\ v.info = <<>>

\* The step that draws the query tab of target t, and the step that ends a
\* script run.
DrawsQueryTab(t) == pc = "query" /\ col = t
EndsRun == pc # "idle" /\ pc' = "idle"

SlotDisplayed(t) ==
    DrawsQueryTab(t) \/ EndsRun => ShowsSlot(view'[t].query, Slot(session_state', t))

SlotDisplayedOrTableError(t) ==
    DrawsQueryTab(t) \/ EndsRun =>
        \/ /\ ShowsSlot(view'[t].query, Slot(session_state', t))
           /\ DrawsQueryTab(t) => view'[t].box = <<>>
        \/ ShowsCountAndError(view'[t], Slot(session_state', t))

\* C8 as stated: a target's slot changes only in the query tab of that
\* target's panel when Run Query was pressed on it with a non-blank
\* statement; execute_query is then called once in that run and the slot
\* holds its result. Every other step leaves the slot as it was, and every
\* query tab that is drawn, and every run that ends, displays the slot.
C8_SlotKeptAndDisplayed ==
    [][\A t \in Targets : SlotFrame(t) /\ SlotDisplayed(t)]_vars

\* C8 amended: the same for the slot; every query tab that is drawn, and
\* every run that ends, displays the slot, except that when st.dataframe
\* raises on the rows of a Success the panel shows the row count without the
\* rows, the exception in its error box, and no info tab.
C8_SlotKeptAndDisplayedOrTableError ==
    [][\A t \in Targets : SlotFrame(t) /\ SlotDisplayedOrTableError(t)]_vars

\* A run has ended in which Run Query on target 1 replaced its slot by the
\* call's result, which its query tab displays, while target 2 still holds
\* the Success of an earlier run, on whose rows st.dataframe raised.
C8_Witness ==
    /\ pc = "idle"
    /\ RunQueryPressed(1)
    /\ ncalls[1].query = 1
    /\ ncalls[2].query = 0
    /\ Slot(session_state, 1) = res
    /\ Slot(session_state, 2) # Slot(session_state, 1)
    /\ ShowsSlot(view[1].query, Slot(session_state, 1))
    /\ view[1].box = <<>>
    /\ ShowsCountAndError(view[2], Slot(session_state, 2))

\* C9: in a script run get_container_logs is called for a target only if
\* the run serves a Refresh Logs press on that target.
C9_LogsFetchedOnlyOnRequest ==
    \A t \in Targets :
        ncalls[t].logs > 0 => event.kind \in {"logs", "rerun"} /\ event.target = t

====
